---- MODULE Spec2Model ----
(***************************************************************************)
(* Model of the builder service (src/builder/src/build.py): the build     *)
(* flow (build_function -> detect_runtime -> inject_scaffold ->           *)
(* build_image) and the retrieve flow (get_function_code); of the         *)
(* metadata catalog (src/metadata-service/src/app.py) and of registration *)
(* in the auth service (src/auth-service/src/app.py).                     *)
(*                                                                         *)
(* A directory tree is a function from paths (non-empty sequences of      *)
(* names, relative to the tree's root) to contents: Dir for a directory,  *)
(* any other string for a regular file holding that text.  A directory    *)
(* that does not exist is a path outside the function's domain.           *)
(***************************************************************************)
EXTENDS Integers, Sequences, FiniteSets, TLC

VARIABLES
    mg_source,      \* scaffold merge: the bundle directory (source_dir)
    mg_before,      \* scaffold merge: the bundle as it was before the first merge
    mg_runtimes,    \* scaffold merge: the /app/runtimes directory
    mg_runtime,     \* scaffold merge: the runtime argument
    mg_runs         \* scaffold merge: number of inject_scaffold calls made

mergeVars == <<mg_source, mg_before, mg_runtimes, mg_runtime, mg_runs>>

VARIABLES
    REGISTRY_URL,   \* the registry host read from the environment at start-up
    runtimes,       \* the /app/runtimes directory: runtime name -> its tree
    pc,             \* build request -> where the handler stands
    function_name,  \* build request -> the form field "name"
    bundle,         \* build request -> the tree its archive was extracted to
    runtime,        \* build request -> the runtime detect_runtime returned
    temp_dir,       \* build request -> the name of its temporary directory
    tmp,            \* the temporary directories that exist: name -> tree of <temp>/src
    calls,          \* build request -> the toolchain commands it ran, with exit codes
    response,       \* build request -> the HTTP response returned
    failure,        \* build request -> the stage and step that failed, if any
    local_images,   \* the docker daemon's image store: reference -> build context
    registry,       \* the registry: reference -> pushed image and the request that pushed it
    request,        \* build request -> the request as received
    effects,        \* build request -> the filesystem work the handler has done
    context         \* build request -> source_dir as build_image last left it

buildVars == <<REGISTRY_URL, runtimes, pc, function_name, bundle, runtime, temp_dir,
               tmp, calls, response, failure, local_images, registry,
               request, effects, context>>

VARIABLES
    images,         \* retrieve: the images docker can create from: function name -> /app tree
    containers,     \* retrieve: the containers that exist in the docker daemon
    g_pc,           \* retrieve request -> where get_function_code stands
    g_name,         \* retrieve request -> function_name
    container_id,   \* retrieve request -> the container it created
    staging,        \* retrieve request -> the tree of its temp_dir
    pending,        \* retrieve request -> how the inner try block ended
    g_calls,        \* retrieve request -> the docker commands it ran, with exit codes
    g_response      \* retrieve request -> the HTTP response returned

retrieveVars == <<images, containers, g_pc, g_name, container_id, staging, pending,
                  g_calls, g_response>>

VARIABLES
    d_files,        \* detection: the names os.listdir(source_dir) returned
    d_result,       \* detection: the runtime detect_runtime returned
    d_log,          \* detection: the record detect_runtime logged
    d_seen,         \* detection: what earlier calls returned and logged
    d_runs          \* detection: number of detect_runtime calls made

detectVars == <<d_files, d_result, d_log, d_seen, d_runs>>

VARIABLES
    functions_db,   \* catalog: function id -> its record
    m_ids,          \* catalog: number of ids uuid4 has handed out
    m_response      \* catalog: the status code of the last response

catalogVars == <<functions_db, m_ids, m_response>>

VARIABLES
    users,          \* auth: the committed rows of the users table
    a_pc,           \* registration -> where register stands
    a_data,         \* registration -> the JSON body it received
    a_writer,       \* auth: the registrations holding an uncommitted INSERT
    a_response      \* registration -> the status code returned

authVars == <<users, a_pc, a_data, a_writer, a_response>>

vars == <<mergeVars, buildVars, retrieveVars, detectVars, catalogVars, authVars>>

----------------------------------------------------------------------------
(* Directory trees and the os / shutil calls the service makes on them.    *)

Dir == "dir"

EmptyTree == <<>>

\* os.listdir(d): the names of the entries directly under the root of d
listdir(tree) == {p[1] : p \in DOMAIN tree}

\* os.path.exists(os.path.join(d, item))
exists(tree, item) == <<item>> \in DOMAIN tree

\* os.path.isdir(os.path.join(d, item))
isdir(tree, item) == exists(tree, item) /\ tree[<<item>>] = Dir

\* the paths of tree at or below the top-level entry item
Under(tree, item) == {p \in DOMAIN tree : p[1] = item}

\* shutil.copytree(src/item, dst/item): recursive copy of a whole directory
copytree(src, dst, item) ==
    [p \in DOMAIN dst \cup Under(src, item) |->
        IF p \in Under(src, item) THEN src[p] ELSE dst[p]]

\* shutil.copy2(file, dst/item): writes the file, replacing an existing file;
\* when dst/item is a directory the file is written inside it under its own name
copy2(content, basename, dst, item) ==
    LET target == IF isdir(dst, item) THEN <<item, basename>> ELSE <<item>>
    IN  [p \in DOMAIN dst \cup {target} |->
            IF p = target THEN content ELSE dst[p]]

\* a merge that copies every entry, existing in the bundle or not
InjectSkipsNothing(scaffold, dst, item) ==
    IF isdir(scaffold, item)
    THEN copytree(scaffold, dst, item)
    ELSE copy2(scaffold[<<item>>], item, dst, item)

\* a merge that appends a scaffold file to the file the bundle already has
InjectAppends(scaffold, dst, item) ==
    IF exists(dst, item)
    THEN IF isdir(dst, item) \/ isdir(scaffold, item)
         THEN dst
         ELSE [dst EXCEPT ![<<item>>] = @ \o scaffold[<<item>>]]
    ELSE IF isdir(scaffold, item)
         THEN copytree(scaffold, dst, item)
         ELSE copy2(scaffold[<<item>>], item, dst, item)

\* the body of the loop of inject_scaffold for one entry of the scaffold
InjectItem(scaffold, dst, item) ==
    IF exists(dst, item)
    THEN dst
    ELSE IF isdir(scaffold, item)
         THEN copytree(scaffold, dst, item)
         ELSE copy2(scaffold[<<item>>], item, dst, item)

RECURSIVE InjectItems(_, _, _)
InjectItems(scaffold, dst, items) ==
    IF items = {}
    THEN dst
    ELSE LET item == CHOOSE i \in items : TRUE
         IN  InjectItems(scaffold, InjectItem(scaffold, dst, item), items \ {item})

\* inject_scaffold(source_dir, runtime) for runtime rt, with /app/runtimes given as rts:
\* a function from the names of the runtime directories that exist to their trees
inject_scaffold(rts, source_dir, rt) ==
    IF rt \notin DOMAIN rts
    THEN source_dir
    ELSE InjectItems(rts[rt], source_dir, listdir(rts[rt]))


----------------------------------------------------------------------------
(* Runtime detection and archive extraction.                               *)

RUNTIME_PATTERNS ==
    << [runtime |-> "python-flask", patterns |-> <<"requirements.txt", "app.py", "wsgi.py">>],
       [runtime |-> "nodejs", patterns |-> <<"package.json", "index.js", "server.js">>],
       [runtime |-> "go", patterns |-> <<"go.mod", "main.go">>] >>

\* a detection that looks only at the first pattern of each runtime
RECURSIVE DetectFirstPatternOnly(_, _)
DetectFirstPatternOnly(files, i) ==
    IF i > Len(RUNTIME_PATTERNS)
    THEN "python-flask"
    ELSE IF RUNTIME_PATTERNS[i].patterns[1] \in files
         THEN RUNTIME_PATTERNS[i].runtime
         ELSE DetectFirstPatternOnly(files, i + 1)

\* the loop of detect_runtime from the i-th runtime on, then the default
RECURSIVE DetectFrom(_, _)
DetectFrom(files, i) ==
    IF i > Len(RUNTIME_PATTERNS)
    THEN "python-flask"
    ELSE IF \E j \in 1..Len(RUNTIME_PATTERNS[i].patterns) :
                RUNTIME_PATTERNS[i].patterns[j] \in files
         THEN RUNTIME_PATTERNS[i].runtime
         ELSE DetectFrom(files, i + 1)

detect_runtime(source_dir) == DetectFrom(listdir(source_dir), 1)

\* a detection that logs every result at level info
LogAlwaysInfo(files, i) ==
    [level |-> "info", message |-> "Detected runtime: " \o DetectFrom(files, i)]

\* what the same loop logs: logger.info on a match (line 39), logger.warning
\* when it falls through to the default (line 43)
RECURSIVE LogFrom(_, _)
LogFrom(files, i) ==
    IF i > Len(RUNTIME_PATTERNS)
    THEN [level |-> "warning", message |-> "No runtime detected, defaulting to python-flask"]
    ELSE IF \E j \in 1..Len(RUNTIME_PATTERNS[i].patterns) :
                RUNTIME_PATTERNS[i].patterns[j] \in files
         THEN [level |-> "info", message |-> "Detected runtime: " \o RUNTIME_PATTERNS[i].runtime]
         ELSE LogFrom(files, i + 1)

detect_runtime_log(source_dir) == LogFrom(listdir(source_dir), 1)

\* zipfile drops the empty, "." and ".." components of an entry's name
SanitizeEntry(name) == SelectSeq(name, LAMBDA x : x \notin {"", ".", ".."})

\* ZipFile.extractall(extract_dir) into the empty extract_dir
extractall(entries) ==
    [q \in {SanitizeEntry(n) : n \in DOMAIN entries} \ {<<>>} |->
        entries[CHOOSE n \in DOMAIN entries : SanitizeEntry(n) = q]]

\* the function f with key k set to v (k added when absent)
Store(f, k, v) == [x \in DOMAIN f \cup {k} |-> IF x = k THEN v ELSE f[x]]

\* the function f without key k
Remove(f, k) == [x \in DOMAIN f \ {k} |-> f[x]]

----------------------------------------------------------------------------
(* Bounded universes of trees.                                             *)

MkTree(F, D, K, text) ==
    [p \in {<<f>> : f \in F} \cup {<<d>> : d \in D} \cup {<<k[1], k[2]>> : k \in K} |->
        IF Len(p) = 1 /\ p[1] \in D THEN Dir ELSE text]

\* every tree whose top-level files are among files, whose top-level
\* directories are among dirs, each holding files named among subs
TreesOver(files, dirs, subs, text) ==
    {MkTree(F, D, K, text) :
        <<F, D, K>> \in {t \in (SUBSET files) \X (SUBSET dirs) \X (SUBSET (dirs \X subs)) :
                            /\ t[1] \cap t[2] = {}
                            /\ \A k \in t[3] : k[1] \in t[2]}}

----------------------------------------------------------------------------
(* Scaffold merge on its own: inject_scaffold applied to any bundle.       *)

MaxMerges == 2

MergeNames == {"Dockerfile", "static", "wsgi.py"}
MergeSubs == {"style.css", "app.js"}

MergeBundles == TreesOver(MergeNames, MergeNames, MergeSubs, "user")
MergeScaffolds == TreesOver(MergeNames, MergeNames, MergeSubs, "scaffold")

MergeInit ==
    /\ mg_source \in MergeBundles
    /\ mg_before = mg_source
    /\ mg_runtime = "python-flask"
    /\ \/ mg_runtimes = <<>>
       \/ \E s \in MergeScaffolds : mg_runtimes = [r \in {"python-flask"} |-> s]
    /\ mg_runs = 0

MergeIdle ==
    /\ mg_source = EmptyTree
    /\ mg_before = EmptyTree
    /\ mg_runtime = ""
    /\ mg_runtimes = <<>>
    /\ mg_runs = 0

MergeScaffold ==
    /\ mg_runs < MaxMerges
    /\ mg_source' = inject_scaffold(mg_runtimes, mg_source, mg_runtime)
    /\ mg_runs' = mg_runs + 1
    /\ UNCHANGED <<mg_before, mg_runtimes, mg_runtime>>
    /\ UNCHANGED <<buildVars, retrieveVars, detectVars, catalogVars, authVars>>

MergeNext == MergeScaffold


\* the paths of tree strictly below the directory at path p
Below(tree, p) ==
    {q \in DOMAIN tree : Len(q) > Len(p) /\ SubSeq(q, 1, Len(p)) = p}

\* the path p of tree before has the same content in tree after: the same
\* text for a file, the same entries (recursively) for a directory
SameContent(before, after, p) ==
    /\ p \in DOMAIN after
    /\ after[p] = before[p]
    /\ Below(after, p) = Below(before, p)

MergeHasScaffold == mg_runtime \in DOMAIN mg_runtimes

\* C7: inject_scaffold never modifies a path that exists in the bundle before
\* the merge: every file and directory the bundle held before the merge has
\* identical content after it, for every bundle and scaffold tree.
C7_MergeKeepsExistingPaths ==
    \A p \in DOMAIN mg_before : SameContent(mg_before, mg_source, p)

\* C7 witness: a merge has run on a bundle one of whose files and one of whose
\* directories collide with scaffold entries of other content, and it copied
\* something else into the bundle.
C7_Witness ==
    /\ mg_runs >= 1
    /\ MergeHasScaffold
    /\ \E i \in listdir(mg_before) :
          /\ ~isdir(mg_before, i)
          /\ exists(mg_runtimes[mg_runtime], i)
          /\ mg_runtimes[mg_runtime][<<i>>] # mg_before[<<i>>]
    /\ \E i \in listdir(mg_before) :
          /\ isdir(mg_before, i)
          /\ isdir(mg_runtimes[mg_runtime], i)
          /\ Below(mg_runtimes[mg_runtime], <<i>>) # {}
    /\ mg_source # mg_before

\* C8: when a scaffold directory has the same relative path as a directory
\* already in the bundle, inject_scaffold descends into it and copies the
\* scaffold children missing from the bundle, so that after the merge every
\* scaffold path below such a directory exists in the bundle.
C8_MergeDescendsIntoExistingDirs ==
    (mg_runs >= 1 /\ MergeHasScaffold) =>
        \A i \in listdir(mg_runtimes[mg_runtime]) :
            (isdir(mg_runtimes[mg_runtime], i) /\ isdir(mg_before, i)) =>
                \A q \in Below(mg_runtimes[mg_runtime], <<i>>) : q \in DOMAIN mg_source

----------------------------------------------------------------------------
(* The build flow: POST /build, build_function and build_image.            *)

Requests == {"r1", "r2"}

\* names of the temporary directories tempfile can hand out
MaxTemp == 2
TempNames == 1..MaxTemp

\* values of the form field "name"; "" stands for a missing or empty field
FormNames == {"", "hello", "other", "Bad Name"}

\* docker accepts a repository name of lower-case letters, digits and separators
ValidRepoName(name) == name \in {"hello", "other"}

\* some entry of the archive has a parent-directory component
Escapes(entries) == \E n \in DOMAIN entries : \E i \in 1..Len(n) : n[i] = ".."

NoRequest == [has_file |-> FALSE, name |-> "", escapes |-> FALSE]

\* the archives a request can upload: bytes that are no zip file, zip files of
\* well-formed bundles, and a zip file with a parent-directory entry
BuildBundles == TreesOver({"app.py", "package.json", "Dockerfile"}, {"static"}, {}, "user")
Archives ==
    {[valid |-> FALSE, entries |-> EmptyTree]}
        \cup {[valid |-> TRUE, entries |-> b] : b \in BuildBundles}
        \cup {[valid |-> TRUE, entries |-> [n \in {<<"..", "app.py">>} |-> "user"]]}

\* configurations of /app/runtimes
FlaskScaffold ==
    [n \in {<<"Dockerfile">>, <<"static">>, <<"static", "style.css">>} |->
        IF n = <<"static">> THEN Dir ELSE "scaffold"]
NodeScaffold == [n \in {<<"Dockerfile">>} |-> "scaffold"]
BareScaffold == [n \in {<<"wsgi.py">>} |-> "scaffold"]
RuntimesDirs ==
    { <<>>,
      [r \in {"python-flask", "nodejs"} |->
          IF r = "python-flask" THEN FlaskScaffold ELSE NodeScaffold],
      [r \in {"python-flask"} |-> BareScaffold] }

RegistryHosts == {"localhost:5001", "registry:5000"}

\* f"{host}/{function_name}:latest"
ImageRef(host, name) == [host |-> host, name |-> name, tag |-> "latest"]
NoImage == [host |-> "", name |-> "", tag |-> ""]

push_registry == "localhost:5001"
image_name(r) == ImageRef(REGISTRY_URL, function_name[r])
internal_image_name(r) == ImageRef(push_registry, function_name[r])

\* subprocess.run(cmd, check=True) raises CalledProcessError on a non-zero exit
ExitCodes == {0, 1}
CheckIgnored(rc) == FALSE
CalledProcessError(rc) == rc # 0

\* jsonify({"error": ...}), status
ErrorResponse(status, error) ==
    [status |-> status, error |-> error, name |-> "", image |-> NoImage, runtime |-> ""]

NoFailure == [stage |-> "none", step |-> "none"]

\* tempfile.TemporaryDirectory(): __enter__ makes a new empty directory, in which
\* the handler makes src; __exit__ removes the directory and all it holds
CleanupLeaks(dirs, d) == dirs
cleanup(dirs, d) == Remove(dirs, d)

InFlight == {"build", "tag", "push"}

BuildIdle ==
    /\ REGISTRY_URL = "localhost:5001"
    /\ runtimes = <<>>
    /\ pc = [r \in Requests |-> "idle"]
    /\ function_name = [r \in Requests |-> ""]
    /\ bundle = [r \in Requests |-> EmptyTree]
    /\ runtime = [r \in Requests |-> ""]
    /\ temp_dir = [r \in Requests |-> 0]
    /\ tmp = <<>>
    /\ calls = [r \in Requests |-> <<>>]
    /\ response = [r \in Requests |-> ErrorResponse(0, "")]
    /\ failure = [r \in Requests |-> NoFailure]
    /\ local_images = <<>>
    /\ registry = <<>>
    /\ request = [r \in Requests |-> NoRequest]
    /\ effects = [r \in Requests |-> {}]
    /\ context = [r \in Requests |-> EmptyTree]

BuildInit ==
    /\ REGISTRY_URL \in RegistryHosts
    /\ runtimes \in RuntimesDirs
    /\ pc = [r \in Requests |-> "idle"]
    /\ function_name = [r \in Requests |-> ""]
    /\ bundle = [r \in Requests |-> EmptyTree]
    /\ runtime = [r \in Requests |-> ""]
    /\ temp_dir = [r \in Requests |-> 0]
    /\ tmp = <<>>
    /\ calls = [r \in Requests |-> <<>>]
    /\ response = [r \in Requests |-> ErrorResponse(0, "")]
    /\ failure = [r \in Requests |-> NoFailure]
    /\ local_images = <<>>
    /\ registry = <<>>
    /\ request = [r \in Requests |-> NoRequest]
    /\ effects = [r \in Requests |-> {}]
    /\ context = [r \in Requests |-> EmptyTree]

\* the handler returns resp; dirs are the temporary directories then left
Return(r, resp, fail, dirs) ==
    /\ pc' = [pc EXCEPT ![r] = "done"]
    /\ response' = [response EXCEPT ![r] = resp]
    /\ failure' = [failure EXCEPT ![r] = fail]
    /\ temp_dir' = [temp_dir EXCEPT ![r] = 0]
    /\ tmp' = dirs

\* build_function, lines 118-125: the error the request is rejected with, "" if none
InputErrorFileOnly(has_file, name) ==
    IF ~has_file THEN "No file part" ELSE ""
InputError(has_file, name) ==
    IF ~has_file THEN "No file part"
    ELSE IF name = "" THEN "Function name is required"
    ELSE ""

\* the requests that can arrive: with or without a file part, any name
Received(has_file, name, archive) ==
    [has_file |-> has_file, name |-> name,
     escapes |-> has_file /\ Escapes(archive.entries)]

\* build_function, lines 118-125: no file part, or no function name
BuildRejected(r) ==
    /\ pc[r] = "idle"
    /\ \E has_file \in BOOLEAN, name \in FormNames, archive \in Archives :
          /\ InputError(has_file, name) # ""
          /\ request' = [request EXCEPT ![r] = Received(has_file, name, archive)]
          /\ Return(r, ErrorResponse(400, InputError(has_file, name)),
                    [stage |-> "input", step |-> "none"], tmp)
    /\ UNCHANGED <<mergeVars, retrieveVars, detectVars, catalogVars, authVars>>
    /\ UNCHANGED <<REGISTRY_URL, runtimes, function_name, bundle, runtime, calls,
                   local_images, registry, effects, context>>

\* build_function, lines 128-137: the upload is no zip file; ZipFile raises
\* BadZipFile, the with block removes the directory, Flask answers 500
BuildExtractFailed(r) ==
    /\ pc[r] = "idle"
    /\ \E name \in FormNames, archive \in Archives, d \in TempNames \ DOMAIN tmp :
          /\ InputError(TRUE, name) = ""
          /\ ~archive.valid
          /\ request' = [request EXCEPT ![r] = Received(TRUE, name, archive)]
          /\ effects' = [effects EXCEPT ![r] = {"mkdtemp"}]
          /\ function_name' = [function_name EXCEPT ![r] = name]
          /\ Return(r, ErrorResponse(500, "Internal Server Error"),
                    [stage |-> "extraction", step |-> "none"],
                    cleanup(Store(tmp, d, EmptyTree), d))
    /\ UNCHANGED <<mergeVars, retrieveVars, detectVars, catalogVars, authVars>>
    /\ UNCHANGED <<REGISTRY_URL, runtimes, bundle, runtime, calls, local_images, registry,
                   context>>

\* os.path.exists(f"/app/runtimes/{runtime}/Dockerfile")
HasDockerfile(rt) == rt \in DOMAIN runtimes /\ exists(runtimes[rt], "Dockerfile")

\* build_image, lines 80-86: source_dir as build_image leaves it before the
\* toolchain runs: untouched when the runtime has no Dockerfile, else with
\* the runtime's Dockerfile copied to its root
PrepareContextTouches(merged, rt) ==
    IF HasDockerfile(rt)
    THEN copy2(runtimes[rt][<<"Dockerfile">>], "Dockerfile", merged, "Dockerfile")
    ELSE copy2("", "Dockerfile", merged, "Dockerfile")
PrepareContext(merged, rt) ==
    IF HasDockerfile(rt)
    THEN copy2(runtimes[rt][<<"Dockerfile">>], "Dockerfile", merged, "Dockerfile")
    ELSE merged

\* build_function, lines 128-149 with build_image, lines 74-83: the archive is
\* extracted, the runtime detected, the scaffold merged; no Dockerfile exists
\* for the runtime, build_image returns None
BuildDescriptorMissing(r) ==
    /\ pc[r] = "idle"
    /\ \E name \in FormNames, archive \in Archives, d \in TempNames \ DOMAIN tmp :
          LET extracted == extractall(archive.entries)
              rt == detect_runtime(extracted)
              merged == inject_scaffold(runtimes, extracted, rt)
          IN  /\ InputError(TRUE, name) = ""
              /\ archive.valid
              /\ ~HasDockerfile(rt)
              /\ request' = [request EXCEPT ![r] = Received(TRUE, name, archive)]
              /\ effects' = [effects EXCEPT ![r] = {"mkdtemp", "extractall"}]
              /\ function_name' = [function_name EXCEPT ![r] = name]
              /\ bundle' = [bundle EXCEPT ![r] = extracted]
              /\ runtime' = [runtime EXCEPT ![r] = rt]
              /\ context' = [context EXCEPT ![r] = PrepareContext(merged, rt)]
              /\ Return(r, ErrorResponse(500, "Build failed"),
                        [stage |-> "toolchain", step |-> "descriptor"],
                        cleanup(Store(tmp, d, PrepareContext(merged, rt)), d))
    /\ UNCHANGED <<mergeVars, retrieveVars, detectVars, catalogVars, authVars>>
    /\ UNCHANGED <<REGISTRY_URL, runtimes, calls, local_images, registry>>

\* build_function, lines 128-146 with build_image, lines 74-92: the archive is
\* extracted, the runtime detected, the scaffold merged, the Dockerfile copied
\* into the context; docker build is about to run
BuildPrepared(r) ==
    /\ pc[r] = "idle"
    /\ \E name \in FormNames, archive \in Archives, d \in TempNames \ DOMAIN tmp :
          LET extracted == extractall(archive.entries)
              rt == detect_runtime(extracted)
              merged == inject_scaffold(runtimes, extracted, rt)
          IN  /\ InputError(TRUE, name) = ""
              /\ archive.valid
              /\ HasDockerfile(rt)
              /\ request' = [request EXCEPT ![r] = Received(TRUE, name, archive)]
              /\ effects' = [effects EXCEPT ![r] = {"mkdtemp", "extractall"}]
              /\ function_name' = [function_name EXCEPT ![r] = name]
              /\ bundle' = [bundle EXCEPT ![r] = extracted]
              /\ runtime' = [runtime EXCEPT ![r] = rt]
              /\ temp_dir' = [temp_dir EXCEPT ![r] = d]
              /\ context' = [context EXCEPT ![r] = PrepareContext(merged, rt)]
              /\ tmp' = Store(tmp, d, PrepareContext(merged, rt))
              /\ pc' = [pc EXCEPT ![r] = "build"]
    /\ UNCHANGED <<mergeVars, retrieveVars, detectVars, catalogVars, authVars>>
    /\ UNCHANGED <<REGISTRY_URL, runtimes, calls, response, failure, local_images, registry>>

\* the record of one toolchain command
Call(op, ref, rc) == [op |-> op, ref |-> ref, rc |-> rc]

\* build_image, lines 107-109 and build_function, lines 148-149: a toolchain
\* step failed, build_image returns None, the handler answers 500
ToolchainFailed(r, step) ==
    Return(r, ErrorResponse(500, "Build failed"),
           [stage |-> "toolchain", step |-> step], cleanup(tmp, temp_dir[r]))

\* build_image, line 96: the image is re-tagged when the two names differ
AlwaysTags(r) == TRUE
NeedsTag(r) == internal_image_name(r) # image_name(r)

\* build_image, lines 90-92: docker build -t image_name source_dir
DockerBuild(r) ==
    /\ pc[r] = "build"
    /\ \E rc \in ExitCodes :
          /\ rc = 0 => ValidRepoName(function_name[r])
          /\ calls' = [calls EXCEPT ![r] = Append(@, Call("build", image_name(r), rc))]
          /\ IF CalledProcessError(rc)
             THEN /\ ToolchainFailed(r, "build")
                  /\ UNCHANGED local_images
             ELSE /\ local_images' = Store(local_images, image_name(r), tmp[temp_dir[r]])
                  /\ pc' = [pc EXCEPT ![r] = IF NeedsTag(r) THEN "tag" ELSE "push"]
                  /\ UNCHANGED <<response, failure, temp_dir, tmp>>
    /\ UNCHANGED <<mergeVars, retrieveVars, detectVars, catalogVars, authVars>>
    /\ UNCHANGED <<REGISTRY_URL, runtimes, function_name, bundle, runtime, registry,
                   request, effects, context>>

\* build_image, lines 95-99: docker tag image_name internal_image_name
DockerTag(r) ==
    /\ pc[r] = "tag"
    /\ \E rc \in ExitCodes :
          /\ rc = 0 => image_name(r) \in DOMAIN local_images
          /\ calls' = [calls EXCEPT ![r] = Append(@, Call("tag", internal_image_name(r), rc))]
          /\ IF CalledProcessError(rc)
             THEN /\ ToolchainFailed(r, "tag")
                  /\ UNCHANGED local_images
             ELSE /\ local_images' = Store(local_images, internal_image_name(r),
                                           local_images[image_name(r)])
                  /\ pc' = [pc EXCEPT ![r] = "push"]
                  /\ UNCHANGED <<response, failure, temp_dir, tmp>>
    /\ UNCHANGED <<mergeVars, retrieveVars, detectVars, catalogVars, authVars>>
    /\ UNCHANGED <<REGISTRY_URL, runtimes, function_name, bundle, runtime, registry,
                   request, effects, context>>

\* build_image, lines 102-106 and build_function, lines 152-156: docker push
\* internal_image_name, then the handler answers 201 with image_name
DockerPush(r) ==
    /\ pc[r] = "push"
    /\ \E rc \in ExitCodes :
          /\ rc = 0 => internal_image_name(r) \in DOMAIN local_images
          /\ calls' = [calls EXCEPT ![r] = Append(@, Call("push", internal_image_name(r), rc))]
          /\ IF CalledProcessError(rc)
             THEN /\ ToolchainFailed(r, "push")
                  /\ UNCHANGED registry
             ELSE /\ registry' = Store(registry, internal_image_name(r),
                                       [image |-> local_images[internal_image_name(r)],
                                        pushed_by |-> r])
                  /\ Return(r,
                        [status |-> 201, error |-> "", name |-> function_name[r],
                         image |-> image_name(r), runtime |-> runtime[r]],
                        NoFailure, cleanup(tmp, temp_dir[r]))
    /\ UNCHANGED <<mergeVars, retrieveVars, detectVars, catalogVars, authVars>>
    /\ UNCHANGED <<REGISTRY_URL, runtimes, function_name, bundle, runtime, local_images,
                   request, effects, context>>

BuildNext ==
    \E r \in Requests :
        \/ BuildRejected(r)
        \/ BuildExtractFailed(r)
        \/ BuildDescriptorMissing(r)
        \/ BuildPrepared(r)
        \/ DockerBuild(r)
        \/ DockerTag(r)
        \/ DockerPush(r)


----------------------------------------------------------------------------
(* The retrieve flow: GET /get-function-code/<function_name>.              *)

Retrievals == {"g1", "g2"}

\* ids the docker daemon can give to new containers
MaxContainers == 2
ContainerIds == 1..MaxContainers

FunctionNames == {"hello", "other"}

\* f"{function_name}.zip"
ZipName(name) == name \o ".zip"

\* the /app trees of the images
ImageTrees == TreesOver({"app.py", "hello.zip"}, {"static"}, {"hello.zip", "style.css"}, "user")

\* the image stores: the functions that have an image, and its /app tree
ImageStores ==
    {<<>>} \cup {[n \in S |-> t] : S \in (SUBSET FunctionNames) \ {{}}, t \in ImageTrees}

\* the regular files of a tree, as os.walk lists them
Files(tree) == {p \in DOMAIN tree : tree[p] # Dir}

\* lines 189-200: the zip file is created in temp_dir, then every file under
\* temp_dir whose own name is not that of the zip file is written to it
package(temp_tree, name) ==
    LET walked == Store(temp_tree, <<ZipName(name)>>, "zip")
    IN  [p \in {f \in Files(walked) : f[Len(f)] # ZipName(name)} |-> walked[p]]

NoError == [kind |-> "", cause |-> ""]

\* jsonify({"error": f"...: {str(e)}"}), 500, or send_file(zip_path)
RetrieveResponse(status, kind, cause, archive) ==
    [status |-> status, error |-> [kind |-> kind, cause |-> cause], archive |-> archive]

\* how the try block of lines 178-210 ended: it returned, or a command or the
\* packaging raised
TryOutcomes == {"return", "cp", "package"}

\* try ... finally: the finally block runs however the try block ended
FinallyOnReturnOnly(outcome) == outcome = "return"
FinallyRuns(outcome) == outcome \in TryOutcomes

\* lines 217-222 and 205: the response for what leaves the outer try block
Respond(outcome, archive) ==
    CASE outcome = "return" -> RetrieveResponse(200, "", "", archive)
      [] outcome = "package" -> RetrieveResponse(500, "Unexpected error", "package", EmptyTree)
      [] OTHER -> RetrieveResponse(500, "Failed to retrieve function code", outcome, EmptyTree)

\* lines 212-214: an exception raised in the finally block replaces the
\* exception or the return value the try block ended with
AfterFinally(outcome, rm_rc) == IF CalledProcessError(rm_rc) THEN "rm" ELSE outcome

RetrieveIdle ==
    /\ images = <<>>
    /\ containers = {}
    /\ g_pc = [q \in Retrievals |-> "idle"]
    /\ g_name = [q \in Retrievals |-> ""]
    /\ container_id = [q \in Retrievals |-> 0]
    /\ staging = [q \in Retrievals |-> EmptyTree]
    /\ pending = [q \in Retrievals |-> ""]
    /\ g_calls = [q \in Retrievals |-> <<>>]
    /\ g_response = [q \in Retrievals |-> RetrieveResponse(0, "", "", EmptyTree)]

RetrieveInit ==
    /\ images \in ImageStores
    /\ containers = {}
    /\ g_pc = [q \in Retrievals |-> "idle"]
    /\ g_name = [q \in Retrievals |-> ""]
    /\ container_id = [q \in Retrievals |-> 0]
    /\ staging = [q \in Retrievals |-> EmptyTree]
    /\ pending = [q \in Retrievals |-> ""]
    /\ g_calls = [q \in Retrievals |-> <<>>]
    /\ g_response = [q \in Retrievals |-> RetrieveResponse(0, "", "", EmptyTree)]

\* the try block ended with outcome: on to the finally block, or out of the handler
LeaveTry(q, outcome) ==
    IF FinallyRuns(outcome)
    THEN /\ pending' = [pending EXCEPT ![q] = outcome]
         /\ g_pc' = [g_pc EXCEPT ![q] = "rm"]
         /\ UNCHANGED g_response
    ELSE /\ pending' = [pending EXCEPT ![q] = outcome]
         /\ g_pc' = [g_pc EXCEPT ![q] = "done"]
         /\ g_response' = [g_response EXCEPT ![q] = Respond(outcome, EmptyTree)]

\* lines 161-176: docker create image_name; a failure leaves by line 217
DockerCreate(q) ==
    /\ g_pc[q] = "idle"
    /\ \E name \in FunctionNames, rc \in ExitCodes :
          /\ rc = 0 => name \in DOMAIN images
          /\ g_name' = [g_name EXCEPT ![q] = name]
          /\ g_calls' = [g_calls EXCEPT ![q] = Append(@, [op |-> "create", rc |-> rc])]
          /\ IF CalledProcessError(rc)
             THEN /\ g_pc' = [g_pc EXCEPT ![q] = "done"]
                  /\ g_response' = [g_response EXCEPT ![q] = Respond("create", EmptyTree)]
                  /\ UNCHANGED <<containers, container_id>>
             ELSE /\ \E c \in ContainerIds \ containers :
                        /\ containers' = containers \cup {c}
                        /\ container_id' = [container_id EXCEPT ![q] = c]
                  /\ g_pc' = [g_pc EXCEPT ![q] = "cp"]
                  /\ UNCHANGED g_response
    /\ UNCHANGED <<images, staging, pending>>
    /\ UNCHANGED <<mergeVars, buildVars, detectVars, catalogVars, authVars>>

\* lines 181-184: docker cp container_id:/app/. temp_dir
DockerCp(q) ==
    /\ g_pc[q] = "cp"
    /\ \E rc \in ExitCodes :
          /\ g_calls' = [g_calls EXCEPT ![q] = Append(@, [op |-> "cp", rc |-> rc])]
          /\ IF CalledProcessError(rc)
             THEN /\ LeaveTry(q, "cp")
                  /\ UNCHANGED staging
             ELSE /\ staging' = [staging EXCEPT ![q] = images[g_name[q]]]
                  /\ g_pc' = [g_pc EXCEPT ![q] = "package"]
                  /\ UNCHANGED <<pending, g_response>>
    /\ UNCHANGED <<images, containers, g_name, container_id>>
    /\ UNCHANGED <<mergeVars, buildVars, detectVars, catalogVars, authVars>>

\* lines 189-210: the zip file is written and send_file builds the response,
\* or writing it raises
Package(q) ==
    /\ g_pc[q] = "package"
    /\ \E ok \in BOOLEAN : LeaveTry(q, IF ok THEN "return" ELSE "package")
    /\ UNCHANGED <<images, containers, g_name, container_id, staging, g_calls>>
    /\ UNCHANGED <<mergeVars, buildVars, detectVars, catalogVars, authVars>>

\* lines 212-222: docker rm container_id in the finally block, then the
\* response for what leaves the handler
DockerRm(q) ==
    /\ g_pc[q] = "rm"
    /\ \E rc \in ExitCodes :
          /\ g_calls' = [g_calls EXCEPT ![q] = Append(@, [op |-> "rm", rc |-> rc])]
          /\ containers' = IF rc = 0 THEN containers \ {container_id[q]} ELSE containers
          /\ g_response' = [g_response EXCEPT ![q] =
                Respond(AfterFinally(pending[q], rc), package(staging[q], g_name[q]))]
          /\ g_pc' = [g_pc EXCEPT ![q] = "done"]
    /\ UNCHANGED <<images, g_name, container_id, staging, pending>>
    /\ UNCHANGED <<mergeVars, buildVars, detectVars, catalogVars, authVars>>

RetrieveNext ==
    \E q \in Retrievals :
        \/ DockerCreate(q)
        \/ DockerCp(q)
        \/ Package(q)
        \/ DockerRm(q)

----------------------------------------------------------------------------
(* Runtime detection on its own: detect_runtime applied to any directory.  *)

MaxDetects == 2

\* the names a source directory can hold at its top level
DetectNames ==
    {"requirements.txt", "app.py", "wsgi.py", "package.json", "index.js", "server.js",
     "go.mod", "main.go", "README.md"}

\* the declared runtimes in declaration order, and their marker files
Declared == <<"python-flask", "nodejs", "go">>
MarkersOf(rt) ==
    CASE rt = "python-flask" -> {"requirements.txt", "app.py", "wsgi.py"}
      [] rt = "nodejs" -> {"package.json", "index.js", "server.js"}
      [] rt = "go" -> {"go.mod", "main.go"}

\* some declared runtime has a marker among files
Matched(files) == \E i \in 1..Len(Declared) : MarkersOf(Declared[i]) \cap files # {}

NoLog == [level |-> "", message |-> ""]

DetectIdle ==
    /\ d_files = {}
    /\ d_result = ""
    /\ d_log = NoLog
    /\ d_seen = {}
    /\ d_runs = 0

DetectInit == DetectIdle

\* detect_runtime(source_dir) on a directory holding the files
Detect ==
    /\ d_runs < MaxDetects
    /\ \E files \in SUBSET DetectNames :
          LET source_dir == [p \in {<<f>> : f \in files} |-> "user"]
          IN  /\ d_files' = files
              /\ d_result' = detect_runtime(source_dir)
              /\ d_log' = detect_runtime_log(source_dir)
              /\ d_seen' = d_seen \cup
                    {[matched |-> Matched(files),
                      result |-> detect_runtime(source_dir),
                      log |-> detect_runtime_log(source_dir)]}
    /\ d_runs' = d_runs + 1
    /\ UNCHANGED <<mergeVars, buildVars, retrieveVars, catalogVars, authVars>>

DetectNext == Detect

----------------------------------------------------------------------------
(* The metadata catalog: the handlers of src/metadata-service/src/app.py   *)
(* on the in-memory functions_db, one call at a time.  A record keeps its   *)
(* id, name, image and status; timestamps, runtime, description and        *)
(* env_vars are carried along by the handlers and left out.                *)

\* the number of ids uuid4 hands out
MaxFunctions == 3

FunctionIds == 1..MaxFunctions

CatalogNames == {"hello", "other"}
CatalogImages == {"registry:5000/hello:latest", "registry:5000/other:latest"}

\* the bodies a client can send: FunctionCreate
FunctionCreates == [name : CatalogNames, image : CatalogImages]

\* the bearer tokens a client can send
Tokens == {"dev-token", "stale-token"}

\* the values a client can send as the status query parameter
StatusValues == {"active", "inactive", "paused"}

validate_token(credentials) == credentials = "dev-token"

\* Function(id=..., status=..., **function.dict())
Function(id, body, st) ==
    [id |-> id, name |-> body.name, image |-> body.image, status |-> st]

CatalogIdle ==
    /\ functions_db = <<>>
    /\ m_ids = 0
    /\ m_response = 0

CatalogInit == CatalogIdle

\* a handler that answers with code and leaves functions_db alone
CatalogRefuses(code) ==
    /\ m_response' = code
    /\ UNCHANGED <<functions_db, m_ids>>

\* POST /functions
create_function ==
    /\ \E body \in FunctionCreates, token \in Tokens :
          IF ~validate_token(token)
          THEN CatalogRefuses(401)
          ELSE IF \E id \in DOMAIN functions_db : functions_db[id].name = body.name
               THEN CatalogRefuses(409)
               ELSE /\ m_ids < MaxFunctions
                    /\ m_ids' = m_ids + 1
                    /\ functions_db' =
                          Store(functions_db, m_ids + 1, Function(m_ids + 1, body, "inactive"))
                    /\ m_response' = 201
    /\ UNCHANGED <<mergeVars, buildVars, retrieveVars, detectVars, authVars>>

\* PUT /functions/{function_id}
update_function ==
    /\ \E function_id \in FunctionIds, function_update \in FunctionCreates, token \in Tokens :
          IF ~validate_token(token)
          THEN CatalogRefuses(401)
          ELSE IF function_id \notin DOMAIN functions_db
               THEN CatalogRefuses(404)
               ELSE /\ functions_db' =
                          [functions_db EXCEPT ![function_id] =
                              Function(function_id, function_update, @.status)]
                    /\ m_response' = 200
                    /\ UNCHANGED m_ids
    /\ UNCHANGED <<mergeVars, buildVars, retrieveVars, detectVars, authVars>>

\* PATCH /functions/{function_id}/status
update_function_status ==
    /\ \E function_id \in FunctionIds, st \in StatusValues, token \in Tokens :
          IF ~validate_token(token)
          THEN CatalogRefuses(401)
          ELSE IF function_id \notin DOMAIN functions_db
               THEN CatalogRefuses(404)
               ELSE IF st \notin {"active", "inactive"}
                    THEN CatalogRefuses(400)
                    ELSE /\ functions_db' = [functions_db EXCEPT ![function_id].status = st]
                         /\ m_response' = 200
                         /\ UNCHANGED m_ids
    /\ UNCHANGED <<mergeVars, buildVars, retrieveVars, detectVars, authVars>>

\* DELETE /functions/{function_id}
delete_function ==
    /\ \E function_id \in FunctionIds, token \in Tokens :
          IF ~validate_token(token)
          THEN CatalogRefuses(401)
          ELSE IF function_id \notin DOMAIN functions_db
               THEN CatalogRefuses(404)
               ELSE /\ functions_db' = Remove(functions_db, function_id)
                    /\ m_response' = 204
                    /\ UNCHANGED m_ids
    /\ UNCHANGED <<mergeVars, buildVars, retrieveVars, detectVars, authVars>>

CatalogNext ==
    \/ create_function
    \/ update_function
    \/ update_function_status
    \/ delete_function

----------------------------------------------------------------------------
(* Registration in the auth service.                                       *)

Registrations == {"a1", "a2", "a3"}

Usernames == {"ann", "bob"}
Emails == {"ann@example.org", "bob@example.org"}
Passwords == {"short", "long enough"}

\* the JSON bodies a client can send: all three keys, or the email missing
AuthBodies ==
    [username : Usernames, email : Emails, password : Passwords]
        \cup [username : Usernames, password : Passwords]

\* the row register inserts; user_id is unique to the request, the password
\* hash is left out
UserRow(a, data) == [id |-> a, username |-> data.username, email |-> data.email]

\* a users table without its UNIQUE columns
NoUniqueColumns(row, table) == FALSE

\* the constraints of the users table: id PRIMARY KEY, username UNIQUE, email UNIQUE
UniqueViolation(row, table) ==
    \E u \in table :
        \/ u.id = row.id
        \/ u.username = row.username
        \/ u.email = row.email

\* SELECT id FROM users WHERE username = ? OR email = ?, then fetchone()
existing_user(table, username, email) ==
    \E u \in table : u.username = username \/ u.email = email

AuthIdle ==
    /\ users = {}
    /\ a_pc = [a \in Registrations |-> "idle"]
    /\ a_data = [a \in Registrations |-> <<>>]
    /\ a_writer = {}
    /\ a_response = [a \in Registrations |-> 0]

AuthInit == AuthIdle

\* register returns, or an exception leaves it and Flask answers 500
AuthReturn(a, code) ==
    /\ a_pc' = [a_pc EXCEPT ![a] = "done"]
    /\ a_response' = [a_response EXCEPT ![a] = code]

\* lines 87-99: the body is read and validated
RegisterValidate(a) ==
    /\ a_pc[a] = "idle"
    /\ \E data \in AuthBodies :
          /\ a_data' = [a_data EXCEPT ![a] = data]
          /\ IF ~({"username", "email", "password"} \subseteq DOMAIN data)
             THEN AuthReturn(a, 400)
             ELSE IF Len(data.password) < 8
                  THEN AuthReturn(a, 400)
                  ELSE /\ a_pc' = [a_pc EXCEPT ![a] = "select"]
                       /\ UNCHANGED a_response
    /\ UNCHANGED <<users, a_writer>>
    /\ UNCHANGED <<mergeVars, buildVars, retrieveVars, detectVars, catalogVars>>

\* lines 102-109: the SELECT on the request's own connection sees the
\* committed rows
RegisterSelect(a) ==
    /\ a_pc[a] = "select"
    /\ IF existing_user(users, a_data[a].username, a_data[a].email)
       THEN AuthReturn(a, 409)
       ELSE /\ a_pc' = [a_pc EXCEPT ![a] = "insert"]
            /\ UNCHANGED a_response
    /\ UNCHANGED <<users, a_data, a_writer>>
    /\ UNCHANGED <<mergeVars, buildVars, retrieveVars, detectVars, catalogVars>>

\* lines 112-118: the INSERT opens a write transaction.  While another
\* connection holds the write lock it waits, and raises OperationalError when
\* the busy timeout runs out; a row that breaks a constraint raises
\* IntegrityError.  Neither exception is caught.
RegisterInsert(a) ==
    /\ a_pc[a] = "insert"
    /\ IF a_writer # {}
       THEN /\ AuthReturn(a, 500)
            /\ UNCHANGED a_writer
       ELSE IF UniqueViolation(UserRow(a, a_data[a]), users)
            THEN /\ AuthReturn(a, 500)
                 /\ UNCHANGED a_writer
            ELSE /\ a_writer' = {a}
                 /\ a_pc' = [a_pc EXCEPT ![a] = "commit"]
                 /\ UNCHANGED a_response
    /\ UNCHANGED <<users, a_data>>
    /\ UNCHANGED <<mergeVars, buildVars, retrieveVars, detectVars, catalogVars>>

\* lines 119-126: commit, close, 201
RegisterCommit(a) ==
    /\ a_pc[a] = "commit"
    /\ users' = users \cup {UserRow(a, a_data[a])}
    /\ a_writer' = a_writer \ {a}
    /\ AuthReturn(a, 201)
    /\ UNCHANGED a_data
    /\ UNCHANGED <<mergeVars, buildVars, retrieveVars, detectVars, catalogVars>>

AuthNext ==
    \E a \in Registrations :
        \/ RegisterValidate(a)
        \/ RegisterSelect(a)
        \/ RegisterInsert(a)
        \/ RegisterCommit(a)

----------------------------------------------------------------------------
(* Specifications: each flow on its own, the other flows' state at rest.   *)

InitMerge == MergeInit /\ BuildIdle /\ RetrieveIdle /\ DetectIdle /\ CatalogIdle /\ AuthIdle
InitBuild == BuildInit /\ MergeIdle /\ RetrieveIdle /\ DetectIdle /\ CatalogIdle /\ AuthIdle
InitRetrieve == RetrieveInit /\ MergeIdle /\ BuildIdle /\ DetectIdle /\ CatalogIdle /\ AuthIdle
InitDetect == DetectInit /\ MergeIdle /\ BuildIdle /\ RetrieveIdle /\ CatalogIdle /\ AuthIdle
InitCatalog == CatalogInit /\ MergeIdle /\ BuildIdle /\ RetrieveIdle /\ DetectIdle /\ AuthIdle
InitAuth == AuthInit /\ MergeIdle /\ BuildIdle /\ RetrieveIdle /\ DetectIdle /\ CatalogIdle

SpecMerge == InitMerge /\ [][MergeNext]_vars
SpecBuild == InitBuild /\ [][BuildNext]_vars
SpecRetrieve == InitRetrieve /\ [][RetrieveNext]_vars
SpecDetect == InitDetect /\ [][DetectNext]_vars
SpecCatalog == InitCatalog /\ [][CatalogNext]_vars
SpecAuth == InitAuth /\ [][AuthNext]_vars

----------------------------------------------------------------------------
(* Claims about the build flow, checked under SpecBuild.                   *)

IsPrefix(s, t) == Len(s) <= Len(t) /\ SubSeq(t, 1, Len(s)) = s

Ops(r) == [i \in 1..Len(calls[r]) |-> calls[r][i].op]

\* C1: in every run of build_image the toolchain commands run are a prefix of
\* build, tag (when applicable), push, each at most once and never retried:
\* every command that is followed by another exited zero, and once a command
\* exits non-zero the request has returned and runs no further command.
C1_ToolchainOrder ==
    \A r \in Requests :
        /\ \/ IsPrefix(Ops(r), <<"build", "tag", "push">>)
           \/ IsPrefix(Ops(r), <<"build", "push">>)
        /\ \A i \in 1..Len(calls[r]) - 1 : calls[r][i].rc = 0
        /\ (calls[r] # <<>> /\ calls[r][Len(calls[r])].rc # 0) => pc[r] = "done"

\* C1 witness: one request ran build, tag and push, all exiting zero, while
\* another request's tag exited non-zero after its build had succeeded.
C1_Witness ==
    \E r1, r2 \in Requests :
        /\ Ops(r1) = <<"build", "tag", "push">>
        /\ \A i \in 1..3 : calls[r1][i].rc = 0
        /\ Ops(r2) = <<"build", "tag">>
        /\ calls[r2][2].rc # 0
        /\ pc[r2] = "done"

\* C2: a successful build returns the reference that was pushed in step 3,
\* for every configuration of the registry hosts.
C2_ReturnsPushedReference ==
    \A r \in Requests :
        response[r].status = 201 =>
            /\ calls[r][Len(calls[r])].op = "push"
            /\ response[r].image = calls[r][Len(calls[r])].ref

\* C6: through the whole build flow no file the user supplied is overwritten
\* or modified: when docker build is invoked, every path of the extracted
\* bundle has the content it had after extraction, a Dockerfile included.
C6_BundleUnchangedAtBuild ==
    \A r \in Requests :
        pc[r] = "build" =>
            \A p \in DOMAIN bundle[r] : SameContent(bundle[r], tmp[temp_dir[r]], p)

\* C9: the temporary directory of a build request is its own and is gone once
\* build_function has returned, on every exit path: the temporary directories
\* that exist are exactly those of the requests still being handled, one each.
C9_TempDirScoped ==
    /\ \A d \in DOMAIN tmp : \E r \in Requests : pc[r] \in InFlight /\ temp_dir[r] = d
    /\ \A r \in Requests : pc[r] \in InFlight => temp_dir[r] \in DOMAIN tmp
    /\ \A r1, r2 \in Requests :
          (r1 # r2 /\ pc[r1] \in InFlight /\ pc[r2] \in InFlight) => temp_dir[r1] # temp_dir[r2]

\* C9 witness: one request has returned after an unparsable archive, another
\* after a failed docker build, and no temporary directory exists.
C9_Witness ==
    \E r1, r2 \in Requests :
        /\ pc[r1] = "done" /\ failure[r1].stage = "extraction"
        /\ pc[r2] = "done" /\ failure[r2] = [stage |-> "toolchain", step |-> "build"]
        /\ DOMAIN tmp = {}

\* C10: every failed build yields a failure that identifies the stage that
\* failed and, for a toolchain failure, which of build, tag or push failed:
\* two builds that failed at different stages or steps get different responses.
C10_FailuresDistinguishable ==
    \A r1, r2 \in Requests :
        ( /\ pc[r1] = "done" /\ pc[r2] = "done"
          /\ failure[r1].stage \in {"extraction", "toolchain"}
          /\ failure[r2].stage \in {"extraction", "toolchain"}
          /\ failure[r1].step \in {"none", "build", "tag", "push"}
          /\ failure[r2].step \in {"none", "build", "tag", "push"}
          /\ failure[r1] # failure[r2] )
        => response[r1] # response[r2]

\* C18: scaffold merge is idempotent: for every bundle and scaffold tree,
\* running inject_scaffold again with the same runtime after it has run once
\* leaves the bundle tree as the first run left it.
C18_MergeIdempotent ==
    [][mg_runs >= 1 => mg_source' = mg_source]_vars

\* C18 witness: the merge has run twice with a scaffold that added something
\* to the bundle.
C18_Witness ==
    /\ mg_runs >= 2
    /\ MergeHasScaffold
    /\ mg_source # mg_before

----------------------------------------------------------------------------
(* Further claims about the build flow, checked under SpecBuild.           *)

Handled(r) == pc[r] # "idle"

\* C11: a build request whose function name is not a valid image repository
\* name is rejected before any filesystem or process work: no temporary
\* directory is created, no archive extracted, no toolchain command run.
C11_InvalidNameRejectedEarly ==
    \A r \in Requests :
        (Handled(r) /\ request[r].name # "" /\ ~ValidRepoName(request[r].name)) =>
            /\ pc[r] = "done"
            /\ response[r].status = 400
            /\ effects[r] = {}
            /\ calls[r] = <<>>

\* C12: a build request with no archive part, or with a missing or empty
\* function name, is rejected with an input error before any side effect: no
\* temporary directory is created and no toolchain command is run.
C12_InputErrorBeforeSideEffects ==
    \A r \in Requests :
        (Handled(r) /\ (~request[r].has_file \/ request[r].name = "")) =>
            /\ pc[r] = "done"
            /\ response[r].status = 400
            /\ response[r].error \in {"No file part", "Function name is required"}
            /\ effects[r] = {}
            /\ temp_dir[r] = 0
            /\ calls[r] = <<>>

\* C12 witness: one request was rejected for its missing file part, another,
\* which had a file part, for its empty name.
C12_Witness ==
    \E r1, r2 \in Requests :
        /\ pc[r1] = "done" /\ ~request[r1].has_file
        /\ pc[r2] = "done" /\ request[r2].has_file /\ request[r2].name = ""

\* C13: when two builds of the same function name both succeed, under every
\* interleaving of their steps the image the registry then holds under that
\* tag is the one built from the bundle of the request whose push completed
\* last.
C13_LastPushWins ==
    \A r1, r2 \in Requests :
        ( /\ r1 # r2
          /\ response[r1].status = 201 /\ response[r2].status = 201
          /\ function_name[r1] = function_name[r2] )
        => LET held == registry[internal_image_name(r1)]
           IN  held.image = context[held.pushed_by]

\* C16: when no build descriptor exists for the detected runtime, build_image
\* fails before it runs any toolchain command (no build, tag or push) and
\* leaves the build context as the scaffold merge left it.
C16_NoDescriptorNoToolchain ==
    \A r \in Requests :
        ("extractall" \in effects[r] /\ ~HasDockerfile(runtime[r])) =>
            /\ pc[r] = "done"
            /\ failure[r] = [stage |-> "toolchain", step |-> "descriptor"]
            /\ calls[r] = <<>>
            /\ context[r] = inject_scaffold(runtimes, bundle[r], runtime[r])

\* C16 witness: a request has failed for want of a Dockerfile after the
\* scaffold merge had added files to its non-empty bundle.
C16_Witness ==
    \E r \in Requests :
        /\ failure[r].step = "descriptor"
        /\ bundle[r] # EmptyTree
        /\ context[r] # bundle[r]

\* C19: in build_image the tag step is invoked if and only if the build
\* succeeded and the externally-addressable image name differs from the name
\* the image was built under; when the two are equal the build is followed
\* directly by the push of that same name.
C19_TagIffNamesDiffer ==
    \A r \in Requests :
        LET c == calls[r]
            built == Len(c) >= 1 /\ c[1].op = "build" /\ c[1].rc = 0
            differ == ImageRef("localhost:5001", function_name[r]) #
                      ImageRef(REGISTRY_URL, function_name[r])
        IN  /\ (\E i \in 1..Len(c) : c[i].op = "tag") => (built /\ differ)
            /\ (built /\ differ) => (pc[r] = "tag" \/ (Len(c) >= 2 /\ c[2].op = "tag"))
            /\ (built /\ ~differ) =>
                  \/ pc[r] = "push"
                  \/ Len(c) >= 2 /\ c[2].op = "push" /\ c[2].ref = c[1].ref

\* C19 witness: with equal names a request ran build then push, both exiting
\* zero, and nothing else.
C19_Witness ==
    \E r \in Requests :
        /\ Ops(r) = <<"build", "push">>
        /\ calls[r][1].rc = 0 /\ calls[r][2].rc = 0
        /\ calls[r][1].ref = calls[r][2].ref

\* C20: an uploaded archive with an entry whose path would resolve outside the
\* destination (parent-directory traversal) is rejected: the build fails at
\* the extraction stage and never proceeds to classification, merge or any
\* toolchain step.
C20_TraversalRejected ==
    \A r \in Requests :
        (Handled(r) /\ request[r].escapes /\ request[r].name # "") =>
            /\ pc[r] = "done"
            /\ failure[r].stage = "extraction"
            /\ runtime[r] = ""
            /\ calls[r] = <<>>

----------------------------------------------------------------------------
(* Claims about runtime detection, checked under SpecDetect.               *)

\* C14: for every set of top-level filenames that contains a marker file of
\* runtime R and no marker of a runtime declared before R (declaration order
\* python-flask, nodejs, go), detect_runtime returns R; with markers of
\* several runtimes present the earliest-declared one is returned.
C14_FirstDeclaredMatchWins ==
    d_runs >= 1 =>
        \A i \in 1..Len(Declared) :
            ( /\ MarkersOf(Declared[i]) \cap d_files # {}
              /\ \A j \in 1..(i - 1) : MarkersOf(Declared[j]) \cap d_files = {} )
            => d_result = Declared[i]

\* C14 witness: a directory with a marker of nodejs and a marker of go, and
\* none of python-flask, was classified nodejs.
C14_Witness ==
    /\ d_runs >= 1
    /\ MarkersOf("python-flask") \cap d_files = {}
    /\ MarkersOf("nodejs") \cap d_files # {}
    /\ MarkersOf("go") \cap d_files # {}
    /\ d_result = "nodejs"

----------------------------------------------------------------------------
(* Claims about the retrieve flow, checked under SpecRetrieve.             *)

RmCount(q) == Cardinality({i \in 1..Len(g_calls[q]) : g_calls[q][i].op = "rm"})

\* docker create exited zero for the request
Created(q) == g_calls[q] # <<>> /\ g_calls[q][1].op = "create" /\ g_calls[q][1].rc = 0

RmFailed(q) ==
    /\ g_calls[q] # <<>>
    /\ g_calls[q][Len(g_calls[q])].op = "rm"
    /\ g_calls[q][Len(g_calls[q])].rc # 0

\* C3: in every retrieve, docker rm is invoked exactly once before the handler
\* returns on every path that follows a successful docker create (copy
\* succeeded, copy failed, packaging failed), and not at all when docker
\* create itself failed.
C3_RemovalExactlyOnce ==
    \A q \in Retrievals :
        /\ RmCount(q) <= 1
        /\ g_pc[q] = "done" => RmCount(q) = (IF Created(q) THEN 1 ELSE 0)

\* C3 witness: one retrieve has returned after a failed copy and one removal,
\* another has returned after a failed create and no removal.
C3_Witness ==
    \E q1, q2 \in Retrievals :
        /\ g_pc[q1] = "done" /\ Created(q1) /\ pending[q1] = "cp" /\ RmCount(q1) = 1
        /\ g_pc[q2] = "done" /\ ~Created(q2) /\ RmCount(q2) = 0

\* C4: when the copy or the packaging of a retrieve fails and the removal of
\* the container then fails too, the failure reported to the caller is the
\* copy or packaging failure, not the removal failure.
C4_RemovalFailureDoesNotMask ==
    \A q \in Retrievals :
        (g_pc[q] = "done" /\ pending[q] \in {"cp", "package"} /\ RmFailed(q))
            => g_response[q].error.cause = pending[q]

\* C5: a retrieve returns the finished archive whenever create, copy and
\* packaging all succeeded, whatever the outcome of the removal, and returns
\* a failure only if one of the three failed.
C5_ArchiveWheneverExtracted ==
    \A q \in Retrievals :
        g_pc[q] = "done" =>
            (g_response[q].status = 200 <=> (Created(q) /\ pending[q] = "return"))

\* C17: the archive a retrieve returns contains every file copied out of the
\* container's application root, at its relative path, and leaves out only the
\* output archive written at the top of the staging directory; a file in a
\* subdirectory is included whatever its name.
C17_ArchiveHoldsEveryCopiedFile ==
    \A q \in Retrievals :
        (g_pc[q] = "done" /\ g_response[q].status = 200) =>
            \A p \in Files(staging[q]) :
                p # <<ZipName(g_name[q])>> =>
                    /\ p \in DOMAIN g_response[q].archive
                    /\ g_response[q].archive[p] = staging[q][p]

----------------------------------------------------------------------------
(* Claims about the metadata catalog, checked under SpecCatalog.           *)

\* C21: after any sequence of create_function, update_function,
\* update_function_status and delete_function calls, no two records in
\* functions_db have the same name.
C21_NamesUnique ==
    \A i, j \in DOMAIN functions_db :
        i # j => functions_db[i].name # functions_db[j].name

----------------------------------------------------------------------------
(* Claims about registration, checked under SpecAuth.                      *)

\* C22: under any interleaving of concurrent register requests, no two
\* stored users ever share a username or an email, and of two registrations
\* with the same username at most one is answered with a 201 success.
C22_RegistrationUnique ==
    /\ \A u1, u2 \in users :
          u1 # u2 => (u1.username # u2.username /\ u1.email # u2.email)
    /\ \A a1, a2 \in Registrations :
          (a1 # a2 /\ a_response[a1] = 201 /\ a_response[a2] = 201) =>
              a_data[a1].username # a_data[a2].username

\* C22 witness: two registrations with the same username both passed the
\* SELECT before either row was committed; one was answered 201, the other
\* failed at its INSERT.
C22_Witness ==
    \E a1, a2 \in Registrations :
        /\ a1 # a2
        /\ a_response[a1] = 201
        /\ a_response[a2] = 500
        /\ a_data[a1].username = a_data[a2].username
        /\ UserRow(a1, a_data[a1]) \in users
        /\ \A u \in users : u.id # a2

====
